---- MODULE Spec2Model ----
(***************************************************************************)
(* A model of NGO_Web_Scraper.py: the rule-based field extraction          *)
(* (get_og_name, apply_rules, extract_phones, require), the per-domain     *)
(* record builder scrape_domain, and the batch loop of main.               *)
(*                                                                         *)
(* Strings are sequences of one-character strings.  Python's None is the   *)
(* value None below, which is no string.  A regular expression is one of   *)
(* a small family whose matching is computed as Python's re computes it:   *)
(* a character class  [xyz]  or an optional character class  [xyz]?  for   *)
(* the generic rules, the built-in PHONE_RE, and  ([..])  or  ([..])([..])?*)
(* for the contact-person rule.                                            *)
(***************************************************************************)
EXTENDS Integers, Sequences, FiniteSets, TLC

VARIABLES
  cfg,        \* main: the loaded configuration, a sequence of [domain, c]
  web,        \* the outside world: URL -> parsed page, or FetchError
  pc,         \* position of the running program
  i,          \* main: index of the domain being scraped
  soups,      \* scrape_domain: parsed contact pages fetched so far
  texts,      \* scrape_domain: their extracted texts
  text,       \* scrape_domain: the combined text
  ngo_name,   \* scrape_domain locals, None until assigned
  address,
  phones,
  services,
  cp,
  ctext,      \* scrape_domain: the text the contact-person regex is run on
  rows,       \* main: records appended so far
  err,        \* the exception that ended the program, or NoError
  report,     \* whether df.to_excel was called, and with which rows
  fetched,    \* log of fetch() calls: <<domain index, url>>
  steps,      \* log of the resolvers run: <<domain index, field>>
  args,       \* function-level runs: the arguments of the call
  plist,      \* extract_phones: the local list phones
  idx,        \* apply_rules: index of the next regex_any pattern
  tried,      \* apply_rules: the patterns handed to re.search so far
  ret         \* function-level runs: the returned value

vars == <<cfg, web, pc, i, soups, texts, text, ngo_name, address, phones,
          services, cp, ctext, rows, err, report, fetched, steps,
          args, plist, idx, tried, ret>>

pipeVars == <<cfg, web, i, soups, texts, text, ngo_name, address, phones,
              services, cp, ctext, rows, err, report, fetched, steps>>

(***************************************************************************)
(* Bounds of the model.                                                    *)
(***************************************************************************)
MaxTextLen == 3    \* longest generated text of the function-level runs
MaxOrgs    == 2    \* most domains in a batch configuration
MaxPages   == 2    \* most contact pages of a domain

(***************************************************************************)
(* Strings.                                                                *)
(***************************************************************************)
None == <<"None">>

Min2(a, b) == IF a <= b THEN a ELSE b

Max2(a, b) == IF a >= b THEN a ELSE b

Whitespace == {" "}

Digits == {"0", "1", "2", "3", "4", "5", "6", "7", "8", "9"}

\* str.strip()
Strip(s) ==
  LET keep == {k \in 1..Len(s) : s[k] \notin Whitespace}
  IN IF keep = {} THEN <<>>
     ELSE SubSeq(s, CHOOSE k \in keep : \A m \in keep : k <= m,
                    CHOOSE k \in keep : \A m \in keep : k >= m)

\* sep.join(parts)
RECURSIVE Join(_, _)
Join(sep, parts) ==
  IF parts = <<>> THEN <<>>
  ELSE IF Len(parts) = 1 THEN parts[1]
  ELSE parts[1] \o sep \o Join(sep, Tail(parts))

\* list(dict.fromkeys(xs)): first occurrences, in order
Dedup(xs) ==
  LET first == {k \in 1..Len(xs) : \A m \in 1..(k - 1) : xs[m] # xs[k]}
      Nth(j) == CHOOSE k \in first : Cardinality({m \in first : m <= k}) = j
  IN [j \in 1..Cardinality(first) |-> xs[Nth(j)]]

\* case folding of re.I: an ASCII capital goes to its small letter
Lower(c) ==
  LET fold == {
      <<"A", "a">>, <<"B", "b">>, <<"C", "c">>, <<"D", "d">>, <<"E", "e">>,
      <<"F", "f">>, <<"G", "g">>, <<"H", "h">>, <<"I", "i">>, <<"J", "j">>,
      <<"K", "k">>, <<"L", "l">>, <<"M", "m">>, <<"N", "n">>, <<"O", "o">>,
      <<"P", "p">>, <<"Q", "q">>, <<"R", "r">>, <<"S", "s">>, <<"T", "t">>,
      <<"U", "u">>, <<"V", "v">>, <<"W", "w">>, <<"X", "x">>, <<"Y", "y">>,
      <<"Z", "z">> }
      hit == {p \in fold : p[1] = c}
  IN IF hit = {} THEN c ELSE (CHOOSE p \in hit : TRUE)[2]

(***************************************************************************)
(* Regular expressions.  A pattern [cls |-> S, opt |-> b] is the regex     *)
(* "[S]" (b false) or "[S]?" (b true); an empty class that is not optional *)
(* never matches, like the default "$a".                                   *)
(***************************************************************************)
ClassMatch(c, cls) == Lower(c) \in {Lower(x) : x \in cls}

\* re.search(pat, text, re.I | re.S): group(0) of the leftmost match, or None.
\* The patterns hold no '.', so re.S changes nothing.
Search(pat, t) ==
  IF pat.opt
  THEN IF t # <<>> /\ ClassMatch(t[1], pat.cls) THEN <<t[1]>> ELSE <<>>
  ELSE LET hits == {k \in 1..Len(t) : ClassMatch(t[k], pat.cls)}
       IN IF hits = {} THEN None
          ELSE <<t[CHOOSE k \in hits : \A m \in hits : k <= m]>>

\* [m.group(0) for m in re.finditer(pat, text, re.I)]: "[S]" matches each
\* character of the class; "[S]?" matches at every position, the character
\* when it is of the class and the empty string otherwise, and the empty
\* string once more at the end of the text
FindAll(pat, t) ==
  IF pat.opt
  THEN [k \in 1..(Len(t) + 1) |->
          IF k <= Len(t) /\ ClassMatch(t[k], pat.cls) THEN <<t[k]>> ELSE <<>>]
  ELSE LET InClass(c) == ClassMatch(c, pat.cls)
           hits == SelectSeq(t, InClass)
       IN [k \in 1..Len(hits) |-> <<hits[k]>>]

\* PHONE_RE = (?:\+?\d[\s-]?){7,15}\d
PhoneMinReps == 7

PhoneMaxReps == 15

PhoneSeps == Whitespace \cup {"-"}

\* The backtracking match of PHONE_RE at position p after j repetitions of
\* the group: the position after the match, or 0.  Greedy: one more
\* repetition is tried before the closing \d, the optional '+' and the
\* optional separator are tried taken before skipped.
RECURSIVE PhoneMatchFrom(_, _, _)
PhoneMatchFrom(t, p, j) ==
  LET n == Len(t)
      DigitAt(q) == q <= n /\ t[q] \in Digits
      AfterDigit(q) ==
        IF ~DigitAt(q) THEN 0
        ELSE LET withSep == IF q + 1 <= n /\ t[q + 1] \in PhoneSeps
                            THEN PhoneMatchFrom(t, q + 2, j + 1) ELSE 0
             IN IF withSep # 0 THEN withSep ELSE PhoneMatchFrom(t, q + 1, j + 1)
      more ==
        IF j >= PhoneMaxReps THEN 0
        ELSE LET plus == IF p <= n /\ t[p] = "+" THEN AfterDigit(p + 1) ELSE 0
             IN IF plus # 0 THEN plus ELSE AfterDigit(p)
  IN IF more # 0 THEN more
     ELSE IF j >= PhoneMinReps /\ DigitAt(p) THEN p + 1 ELSE 0

\* [m.group(0) for m in PHONE_RE.finditer(text)] from position p on: the
\* scan goes to the first position where PHONE_RE matches and resumes after
\* the match
RECURSIVE PhoneFindAll(_, _)
PhoneFindAll(t, p) ==
  LET starts == {q \in p..Len(t) : PhoneMatchFrom(t, q, 0) # 0}
  IN IF starts = {} THEN <<>>
     ELSE LET q == CHOOSE x \in starts : \A y \in starts : x <= y
              e == PhoneMatchFrom(t, q, 0)
          IN <<SubSeq(t, q, e - 1)>> \o PhoneFindAll(t, e)

(***************************************************************************)
(* Configuration values.  A dictionary key that may be missing is a record *)
(* [has |-> FALSE, v |-> <<>>]; a "static" value is absent, a string (kept *)
(* as the one element of v) or a list of strings.                          *)
(***************************************************************************)
Absent == [has |-> FALSE, v |-> <<>>]

Some(x) == [has |-> TRUE, v |-> x]

NoStatic == [kind |-> "absent", v |-> <<>>]

StaticStr(s) == [kind |-> "str", v |-> <<s>>]

StaticList(l) == [kind |-> "list", v |-> l]

\* Python truthiness of rules.get("static"): a missing key, "" and [] are falsy
StaticTruthy(st) ==
  CASE st.kind = "str"  -> st.v[1] # <<>>
    [] st.kind = "list" -> st.v # <<>>
    [] OTHER            -> FALSE

\* Python truthiness of a value that is None or a string
Truthy(s) == s # None /\ s # <<>>

Pat(cls) == [cls |-> cls, opt |-> FALSE]

OptPat(cls) == [cls |-> cls, opt |-> TRUE]

(***************************************************************************)
(* get_og_name.  A soup holds what the function asks of the parsed page:   *)
(* the two og:site_name meta tags (found or not, content attribute or      *)
(* None), the string of <title> (None without one) and the raw text of the *)
(* first <h1> (None without one); body is the rest of the visible text.    *)
(***************************************************************************)
NoTag == [found |-> FALSE, content |-> None]

Meta(content) == [found |-> TRUE, content |-> content]

get_og_name(soup) ==
  LET tag == IF soup.og_property.found THEN soup.og_property ELSE soup.og_name
  IN IF tag.found /\ Truthy(tag.content) THEN Strip(tag.content)
     ELSE IF Truthy(soup.title) THEN Strip(soup.title)
     ELSE IF soup.h1 # None THEN Strip(soup.h1)
     ELSE None

\* s.get_text(" ", strip=True): the stripped, non-empty strings of the page
get_text(soup) ==
  LET raw    == <<soup.title, soup.h1, soup.body>>
      IsText(x) == x # None /\ Strip(x) # <<>>
      pieces == SelectSeq(raw, IsText)
  IN Join(<<" ">>, [k \in 1..Len(pieces) |-> Strip(pieces[k])])

(***************************************************************************)
(* apply_rules                                                             *)
(***************************************************************************)
StaticValue(st) == IF st.kind = "list" THEN Join(<<";", " ">>, st.v) ELSE st.v[1]

\* the for loop over regex_any from pattern k on
RECURSIVE FirstMatch(_, _, _)
FirstMatch(t, pats, k) ==
  IF k > Len(pats) THEN None
  ELSE LET m == Search(pats[k], t)
       IN IF m # None THEN Strip(m) ELSE FirstMatch(t, pats, k + 1)

apply_rules(t, rules) ==
  IF StaticTruthy(rules.static) THEN StaticValue(rules.static)
  ELSE FirstMatch(t, rules.regex_any.v, 1)

(***************************************************************************)
(* extract_phones                                                          *)
(***************************************************************************)
KeepFloor == 3

RECURSIVE FindAllPatterns(_, _)
FindAllPatterns(pats, t) ==
  IF pats = <<>> THEN <<>>
  ELSE FindAll(pats[1], t) \o FindAllPatterns(Tail(pats), t)

\* lines 49-54: the candidates in pattern-then-position order
CollectPhones(t, rules) ==
  IF rules.regex_any.has THEN FindAllPatterns(rules.regex_any.v, t)
  ELSE PhoneFindAll(t, 1)

\* pref.search(p) for pref = "(" + "|".join(prefer) + ")": some alternative
\* matches somewhere in p
PrefSearch(prefer, p) == \E k \in 1..Len(prefer) : Search(prefer[k], p) # None

\* Mutant of PreferSort: the sort key inverted (1 for preferred).
PreferSortInverted(ps, prefer) ==
  LET IsPref(p) == PrefSearch(prefer, p)
      NotPref(p) == ~PrefSearch(prefer, p)
  IN IF prefer # <<>> THEN SelectSeq(ps, NotPref) \o SelectSeq(ps, IsPref)
     ELSE ps

\* lines 56-59: the stable sort on the key 0 (preferred) / 1
PreferSort(ps, prefer) ==
  LET IsPref(p) == PrefSearch(prefer, p)
      NotPref(p) == ~PrefSearch(prefer, p)
  IN IF prefer # <<>> THEN SelectSeq(ps, IsPref) \o SelectSeq(ps, NotPref)
     ELSE ps

RequiredK(rules) == Max2(1, rules.required_min)

\* Mutant of PhonesResult: the slice is phones[:k], without the floor of three.
PhonesResultNoFloor(ps, rules) ==
  LET k == RequiredK(rules)
  IN IF Len(ps) >= k
     THEN Join(<<",", " ">>, SubSeq(ps, 1, Min2(Len(ps), k)))
     ELSE None

\* lines 60-61
PhonesResult(ps, rules) ==
  LET k == RequiredK(rules)
  IN IF Len(ps) >= k
     THEN Join(<<",", " ">>, SubSeq(ps, 1, Min2(Len(ps), Max2(k, KeepFloor))))
     ELSE None

extract_phones(t, rules) ==
  PhonesResult(PreferSort(Dedup(CollectPhones(t, rules)), rules.prefer), rules)

(***************************************************************************)
(* require and the contact-person rule                                     *)
(***************************************************************************)
\* Mutant of Blank: require tests "not v" only, without the strip.
BlankNoStrip(v) == ~Truthy(v)

\* the condition under which require raises
Blank(v) == ~Truthy(v) \/ Strip(v) = <<>>

MissingField(domain, field) ==
  [kind |-> "ValueError",
   msg  |-> domain \o <<": missing required field -> ", field>>]

FetchError(url) == [kind |-> "FetchError", msg |-> url]

IndexError == [kind |-> "IndexError", msg |-> <<>>]

NoError == [kind |-> "none", msg |-> <<>>]

\* A contact-person regex [g1, g2, two] is "([g1])([g2])?" (two) or "([g1])".
\* re.search gives the leftmost match: found is FALSE for Python's None, g2 is
\* None when the second group took no part.
NeverMatches == [g1 |-> {}, g2 |-> {}, two |-> FALSE]

SearchGroups(re, t) ==
  LET hits == {k \in 1..Len(t) : ClassMatch(t[k], re.g1)}
  IN IF hits = {} THEN [found |-> FALSE, g1 |-> None, g2 |-> None, lastindex |-> 0]
     ELSE LET k == CHOOSE h \in hits : \A m \in hits : h <= m
              second == re.two /\ k < Len(t) /\ ClassMatch(t[k + 1], re.g2)
          IN [found |-> TRUE,
              g1 |-> <<t[k]>>,
              g2 |-> IF second THEN <<t[k + 1]>> ELSE None,
              lastindex |-> IF second THEN 2 ELSE 1]

\* str.format on a template given as its pieces
RECURSIVE Format(_, _, _)
Format(tmpl, name, phone) ==
  IF tmpl = <<>> THEN <<>>
  ELSE (CASE tmpl[1] = "{name}"  -> name
          [] tmpl[1] = "{phone}" -> phone
          [] OTHER               -> <<tmpl[1]>>) \o Format(Tail(tmpl), name, phone)

DefaultFormat == <<"{name}", " ", "{phone}">>

\* lines 95-99: the contact person from the text ctext, or None
PersonFromText(cpsel, t) ==
  LET re == IF cpsel.regex.has THEN cpsel.regex.v ELSE NeverMatches
      m  == SearchGroups(re, t)
  IN IF ~m.found THEN None
     ELSE LET name  == Strip(m.g1)
              phone == IF m.lastindex >= 2 /\ Truthy(m.g2) THEN Strip(m.g2) ELSE <<>>
              tmpl  == IF cpsel.format.has THEN cpsel.format.v ELSE DefaultFormat
          IN Strip(Format(tmpl, name, phone))

(***************************************************************************)
(* fetch: the page the world holds at a URL; any status but 200 raises.    *)
(***************************************************************************)
EmptySoup == [og_property |-> NoTag, og_name |-> NoTag, title |-> None,
              h1 |-> None, body |-> <<>>]

Page(soup) == [status |-> 200, soup |-> soup]

FetchFailed == [status |-> 404, soup |-> EmptySoup]

FetchOk(url) == web[url].status = 200

(***************************************************************************)
(* main and scrape_domain.  pc is the statement about to run:              *)
(*   "main"  the for loop of main (line 120), or the report after it       *)
(*   "fetch_pages" .. "return"  inside scrape_domain                       *)
(*   "raised"  an exception left main; "done"  main returned               *)
(***************************************************************************)
NoReport == [written |-> FALSE, rows |-> <<>>]

Domain == cfg[i].domain

C == cfg[i].c

Raise(e) ==
  /\ pc' = "raised"
  /\ err' = e

\* Mutant of MainLoop: the loop catches the exception of a domain and goes
\* on with the next one.
MainLoopPastFailure ==
  /\ pc \in {"main", "raised"}
  /\ i < Len(cfg)
  /\ i' = i + 1
  /\ pc' = "fetch_pages"
  /\ soups' = <<>>
  /\ texts' = <<>>
  /\ text' = None
  /\ ngo_name' = None
  /\ address' = None
  /\ phones' = None
  /\ services' = None
  /\ cp' = None
  /\ ctext' = None
  /\ UNCHANGED <<cfg, web, rows, err, report, fetched, steps, args, plist, idx, tried, ret>>

\* line 120, line 123: the next domain enters scrape_domain
MainLoop ==
  /\ pc = "main"
  /\ i < Len(cfg)
  /\ i' = i + 1
  /\ pc' = "fetch_pages"
  /\ soups' = <<>>
  /\ texts' = <<>>
  /\ text' = None
  /\ ngo_name' = None
  /\ address' = None
  /\ phones' = None
  /\ services' = None
  /\ cp' = None
  /\ ctext' = None
  /\ UNCHANGED <<cfg, web, rows, err, report, fetched, steps, args, plist, idx, tried, ret>>

\* lines 72-73: one iteration of the loop over contact_pages
FetchContactPage ==
  /\ pc = "fetch_pages"
  /\ Len(soups) < Len(C.contact_pages)
  /\ LET u == C.contact_pages[Len(soups) + 1]
     IN /\ fetched' = Append(fetched, <<i, u>>)
        /\ IF FetchOk(u)
           THEN /\ soups' = Append(soups, web[u].soup)
                /\ texts' = Append(texts, get_text(web[u].soup))
                /\ UNCHANGED <<pc, err>>
           ELSE /\ Raise(FetchError(u))
                /\ UNCHANGED <<soups, texts>>
  /\ UNCHANGED <<cfg, web, i, text, ngo_name, address, phones, services, cp, ctext,
                 rows, report, steps, args, plist, idx, tried, ret>>

\* line 74
CombineText ==
  /\ pc = "fetch_pages"
  /\ Len(soups) = Len(C.contact_pages)
  /\ text' = Join(<<" ">>, texts)
  /\ pc' = "og_name"
  /\ UNCHANGED <<cfg, web, i, soups, texts, ngo_name, address, phones, services, cp,
                 ctext, rows, err, report, fetched, steps, args, plist, idx, tried, ret>>

\* line 77: the configured URL when truthy, else the first contact page
OgUrl(c) == IF c.og_url.has /\ c.og_url.v # <<>> THEN c.og_url.v ELSE c.contact_pages[1]

\* lines 77-79
ResolveName ==
  /\ pc = "og_name"
  /\ IF C.contact_pages = <<>>
     THEN /\ Raise(IndexError)
          /\ UNCHANGED <<ngo_name, fetched, steps>>
     ELSE LET og_url == OgUrl(C)
              reuse  == og_url = C.contact_pages[1]
          IN /\ fetched' = IF reuse THEN fetched ELSE Append(fetched, <<i, og_url>>)
             /\ IF ~reuse /\ ~FetchOk(og_url)
                THEN /\ Raise(FetchError(og_url))
                     /\ UNCHANGED <<ngo_name, steps>>
                ELSE LET og_soup == IF reuse THEN soups[1] ELSE web[og_url].soup
                         v       == get_og_name(og_soup)
                     IN /\ steps' = Append(steps, <<i, "NGO Name">>)
                        /\ IF Blank(v)
                           THEN /\ Raise(MissingField(Domain, "NGO Name"))
                                /\ UNCHANGED ngo_name
                           ELSE /\ ngo_name' = v
                                /\ pc' = "address"
                                /\ UNCHANGED err
  /\ UNCHANGED <<cfg, web, i, soups, texts, text, address, phones, services, cp, ctext,
                 rows, report, args, plist, idx, tried, ret>>

\* line 83
ResolveAddress ==
  /\ pc = "address"
  /\ steps' = Append(steps, <<i, "Address">>)
  /\ LET v == apply_rules(text, C.address)
     IN IF Blank(v)
        THEN /\ Raise(MissingField(Domain, "Address"))
             /\ UNCHANGED address
        ELSE /\ address' = v
             /\ pc' = "phones"
             /\ UNCHANGED err
  /\ UNCHANGED <<cfg, web, i, soups, texts, text, ngo_name, phones, services, cp, ctext,
                 rows, report, fetched, args, plist, idx, tried, ret>>

\* Mutant of ResolvePhones: the result is not passed through require.
ResolvePhonesUnchecked ==
  /\ pc = "phones"
  /\ steps' = Append(steps, <<i, "Contact Number">>)
  /\ phones' = extract_phones(text, C.phones)
  /\ pc' = "services"
  /\ UNCHANGED <<cfg, web, i, soups, texts, text, ngo_name, address, services, cp, ctext,
                 rows, err, report, fetched, args, plist, idx, tried, ret>>

\* line 84
ResolvePhones ==
  /\ pc = "phones"
  /\ steps' = Append(steps, <<i, "Contact Number">>)
  /\ LET v == extract_phones(text, C.phones)
     IN IF Blank(v)
        THEN /\ Raise(MissingField(Domain, "Contact Number"))
             /\ UNCHANGED phones
        ELSE /\ phones' = v
             /\ pc' = "services"
             /\ UNCHANGED err
  /\ UNCHANGED <<cfg, web, i, soups, texts, text, ngo_name, address, services, cp, ctext,
                 rows, report, fetched, args, plist, idx, tried, ret>>

\* Mutant of ResolveServices: the rule is applied to the combined text.
ResolveServicesOnText ==
  /\ pc = "services"
  /\ steps' = Append(steps, <<i, "Services Offered">>)
  /\ LET v == apply_rules(text, C.services)
     IN IF Blank(v)
        THEN /\ Raise(MissingField(Domain, "Services Offered"))
             /\ UNCHANGED services
        ELSE /\ services' = v
             /\ pc' = "contact_person"
             /\ UNCHANGED err
  /\ UNCHANGED <<cfg, web, i, soups, texts, text, ngo_name, address, phones, cp, ctext,
                 rows, report, fetched, args, plist, idx, tried, ret>>

\* line 85: the rule is applied to "", not to text
ResolveServices ==
  /\ pc = "services"
  /\ steps' = Append(steps, <<i, "Services Offered">>)
  /\ LET v == apply_rules(<<>>, C.services)
     IN IF Blank(v)
        THEN /\ Raise(MissingField(Domain, "Services Offered"))
             /\ UNCHANGED services
        ELSE /\ services' = v
             /\ pc' = "contact_person"
             /\ UNCHANGED err
  /\ UNCHANGED <<cfg, web, i, soups, texts, text, ngo_name, address, phones, cp, ctext,
                 rows, report, fetched, args, plist, idx, tried, ret>>

\* Mutant of ExtraPage: a configured page is fetched even when it is one of
\* the declared contact pages.
ExtraPageAlways(c) == c.contact_person.page.has

\* line 93: the contact person is read from a page of its own
ExtraPage(c) ==
  /\ c.contact_person.page.has
  /\ \A k \in 1..Len(c.contact_pages) : c.contact_pages[k] # c.contact_person.page.v

\* lines 88-100.  The locals are assigned before the call that can raise:
\* cp holds the static value or the formatted match (None without a match)
\* when require raises at line 100, and ctext holds the combined text
\* (line 92) when the fetch of line 94 raises.
ResolveContactPerson ==
  /\ pc = "contact_person"
  /\ LET cpsel == C.contact_person
     IN IF cpsel.static.has /\ cpsel.static.v # <<>>
        THEN /\ steps' = Append(steps, <<i, "Contact Person">>)
             /\ cp' = cpsel.static.v
             /\ IF Blank(cpsel.static.v)
                THEN Raise(MissingField(Domain, "Contact Person"))
                ELSE /\ pc' = "return"
                     /\ UNCHANGED err
             /\ UNCHANGED <<ctext, fetched>>
        ELSE /\ fetched' = IF ExtraPage(C) THEN Append(fetched, <<i, cpsel.page.v>>)
                           ELSE fetched
             /\ IF ExtraPage(C) /\ ~FetchOk(cpsel.page.v)
                THEN /\ ctext' = text
                     /\ Raise(FetchError(cpsel.page.v))
                     /\ UNCHANGED <<cp, steps>>
                ELSE LET t == IF ExtraPage(C) THEN get_text(web[cpsel.page.v].soup)
                              ELSE text
                         v == PersonFromText(cpsel, t)
                     IN /\ ctext' = t
                        /\ cp' = v
                        /\ steps' = Append(steps, <<i, "Contact Person">>)
                        /\ IF Blank(v)
                           THEN Raise(MissingField(Domain, "Contact Person"))
                           ELSE /\ pc' = "return"
                                /\ UNCHANGED err
  /\ UNCHANGED <<cfg, web, i, soups, texts, text, ngo_name, address, phones, services,
                 rows, report, args, plist, idx, tried, ret>>

\* lines 102-110
Record ==
  [ngo_name |-> ngo_name,
   website  |-> <<"https://">> \o Domain \o <<"/">>,
   address  |-> address,
   services |-> services,
   contact_person |-> cp,
   contact_number |-> phones,
   source_pages   |-> Join(<<";", " ">>, C.contact_pages)]

\* lines 102-110 and rows.append of line 123
ReturnRecord ==
  /\ pc = "return"
  /\ rows' = Append(rows, Record)
  /\ pc' = "main"
  /\ UNCHANGED <<cfg, web, i, soups, texts, text, ngo_name, address, phones, services,
                 cp, ctext, err, report, fetched, steps, args, plist, idx, tried, ret>>

\* lines 126-140: the loop is over, the rows are written
WriteReport ==
  /\ pc = "main"
  /\ i = Len(cfg)
  /\ report' = [written |-> TRUE, rows |-> rows]
  /\ pc' = "done"
  /\ UNCHANGED <<cfg, web, i, soups, texts, text, ngo_name, address, phones, services,
                 cp, ctext, rows, err, fetched, steps, args, plist, idx, tried, ret>>

(***************************************************************************)
(* The inputs of the batch runs: three URLs, what the world serves at      *)
(* each, and the configurations.                                           *)
(***************************************************************************)
U1 == <<"u", "1">>

U2 == <<"u", "2">>

U3 == <<"u", "3">>

URLs == {U1, U2, U3}

\* og:site_name "N", title "T": the visible text is "T A 1 2"
SoupFull == [og_property |-> Meta(<<"N">>), og_name |-> NoTag, title |-> <<"T">>,
             h1 |-> None, body |-> <<"A", " ", "1", " ", "2">>]

\* a whitespace og:site_name before a usable title: the visible text is "T B 1"
SoupOther == [og_property |-> Meta(<<" ">>), og_name |-> NoTag, title |-> <<"T">>,
              h1 |-> <<" ">>, body |-> <<" ", "B", " ", "1">>]

Worlds == [URLs -> {Page(SoupFull), Page(SoupOther), FetchFailed}]

RECURSIVE SeqsUpTo(_, _)
SeqsUpTo(S, n) ==
  IF n = 0 THEN {<<>>}
  ELSE LET shorter == SeqsUpTo(S, n - 1)
       IN shorter \cup {Append(q, x) : q \in {r \in shorter : Len(r) = n - 1}, x \in S}

Rule(static, regex_any) == [static |-> static, regex_any |-> regex_any]

PhoneRule(regex_any, prefer, required_min) ==
  [regex_any |-> regex_any, prefer |-> prefer, required_min |-> required_min]

PersonRule(static, page, regex, format) ==
  [static |-> static, page |-> page, regex |-> regex, format |-> format]

Org(pages, og_url, addr, ph, svc, person) ==
  [contact_pages |-> pages, og_url |-> og_url, address |-> addr, phones |-> ph,
   services |-> svc, contact_person |-> person]

AddressRules ==
  { Rule(NoStatic, Some(<< Pat({"x"}), Pat({"a"}) >>)),       \* matches "A" of SoupFull
    Rule(StaticList(<< <<"S">>, <<"T">> >>), Some(<< Pat({"a"}) >>)),
    Rule(StaticStr(<<>>), Some(<< OptPat({"x"}) >>)),         \* matches "", stripped to ""
    Rule(NoStatic, Absent) }

PhoneRules ==
  { PhoneRule(Some(<< Pat({"1", "2"}) >>), <<>>, 1),
    PhoneRule(Some(<< Pat({"1", "2"}) >>), << Pat({"2"}) >>, 2),
    PhoneRule(Absent, <<>>, 1) }                              \* PHONE_RE

ServiceRules ==
  { Rule(StaticStr(<<"S">>), Absent),
    Rule(StaticList(<< <<"S">>, <<"V">> >>), Some(<< Pat({"a"}) >>)),
    Rule(StaticStr(<<" ">>), Absent),
    Rule(NoStatic, Some(<< Pat({"a", "t", "1"}) >>)),         \* matches every page text
    Rule(StaticList(<<>>), Some(<< OptPat({"a"}) >>)) }       \* matches ""

PersonRegex == [g1 |-> {"a", "b"}, g2 |-> {"1"}, two |-> TRUE]

PersonRules ==
  { PersonRule(Some(<<"P">>), Some(U3), Some(PersonRegex), Absent),
    PersonRule(Some(<<" ">>), Absent, Some(PersonRegex), Absent),
    PersonRule(Some(<<>>), Absent, Some(PersonRegex), Absent),
    PersonRule(Some(<<>>), Some(U3), Some(PersonRegex), Absent),
    PersonRule(Absent, Some(U1), Some(PersonRegex), Absent),
    PersonRule(Absent, Some(U2), Some(PersonRegex), Some(<<"{phone}", " ", "(", "{name}", ")">>)),
    PersonRule(Absent, Some(U3), Some(PersonRegex), Absent),
    PersonRule(Absent, Absent, Some(PersonRegex), Some(<<" ">>)),
    PersonRule(Absent, Absent, Absent, Absent) }

\* rules that resolve on the text of SoupFull
GoodAddress == Rule(NoStatic, Some(<< Pat({"x"}), Pat({"a"}) >>))

GoodPhones == PhoneRule(Some(<< Pat({"1", "2"}) >>), <<>>, 1)

GoodServices == Rule(StaticStr(<<"S">>), Absent)

\* one domain, every page list and every source of the name and of the person
FetchConfigs ==
  { Org(pages, og, GoodAddress, GoodPhones, GoodServices, person) :
      pages \in SeqsUpTo(URLs, MaxPages),
      og \in {Absent, Some(<<>>), Some(U1), Some(U2), Some(U3)},
      person \in {r \in PersonRules : r.regex.has /\ ~r.format.has} }

\* one domain, every combination of the field rules
RuleConfigs ==
  { Org(pages, Absent, addr, ph, svc, person) :
      pages \in {<<U1>>, <<U1, U2>>},
      addr \in AddressRules, ph \in PhoneRules, svc \in ServiceRules,
      person \in PersonRules }

RuleWorlds == {w \in Worlds : w[U1] = Page(SoupFull) /\ w[U3] # Page(SoupOther)}

\* the domains of a batch
BatchOrgs ==
  { Org(<<U1>>, Absent, GoodAddress, GoodPhones, GoodServices,
        PersonRule(Some(<<"P">>), Absent, Absent, Absent)),
    Org(<<U2, U1>>, Some(U1), GoodAddress, GoodPhones, GoodServices,
        PersonRule(Absent, Some(U3), Some(PersonRegex), Absent)),
    Org(<<U1>>, Absent, Rule(NoStatic, Absent), GoodPhones, GoodServices,
        PersonRule(Some(<<"P">>), Absent, Absent, Absent)) }

DomainNames == << <<"d", "1">>, <<"d", "2">>, <<"d", "3">>, <<"d", "4">> >>

\* cfg.items(): the domains in the order of the configuration file
Config(orgs) == [k \in 1..Len(orgs) |-> [domain |-> DomainNames[k], c |-> orgs[k]]]

FunctionIdle ==
  /\ args = <<>>
  /\ plist = <<>>
  /\ idx = 0
  /\ tried = <<>>
  /\ ret = None

Init ==
  /\ \E w \in Worlds :
       /\ web = w
       /\ \/ \E c \in FetchConfigs : cfg = Config(<<c>>)
          \/ \E c \in RuleConfigs : w \in RuleWorlds /\ cfg = Config(<<c>>)
          \/ \E orgs \in SeqsUpTo(BatchOrgs, MaxOrgs) : cfg = Config(orgs)
  /\ pc = "main"
  /\ i = 0
  /\ soups = <<>>
  /\ texts = <<>>
  /\ text = None
  /\ ngo_name = None
  /\ address = None
  /\ phones = None
  /\ services = None
  /\ cp = None
  /\ ctext = None
  /\ rows = <<>>
  /\ err = NoError
  /\ report = NoReport
  /\ fetched = <<>>
  /\ steps = <<>>
  /\ FunctionIdle

Next ==
  \/ MainLoop
  \/ FetchContactPage
  \/ CombineText
  \/ ResolveName
  \/ ResolveAddress
  \/ ResolvePhones
  \/ ResolveServices
  \/ ResolveContactPerson
  \/ ReturnRecord
  \/ WriteReport

Spec == Init /\ [][Next]_vars

(***************************************************************************)
(* Function-level runs: one call of extract_phones, apply_rules or         *)
(* get_og_name on arguments drawn from bounded sets.  The batch state is   *)
(* idle.                                                                   *)
(***************************************************************************)
BatchIdle ==
  /\ cfg = <<>>
  /\ web = <<>>
  /\ i = 0
  /\ soups = <<>>
  /\ texts = <<>>
  /\ text = None
  /\ ngo_name = None
  /\ address = None
  /\ phones = None
  /\ services = None
  /\ cp = None
  /\ ctext = None
  /\ rows = <<>>
  /\ err = NoError
  /\ report = NoReport
  /\ fetched = <<>>
  /\ steps = <<>>

TextChars == {"1", "2", "3", " "}

\* texts that PHONE_RE, or a rule with many candidates, is run on
LongTexts ==
  { <<"1", " ", "2", " ", "3", " ", "4", " ", "5">>,
    <<"4", "2", "4", "5", "1", "3", "2">>,
    <<"1", "2", "3", "4", "5", "6", "7", "8">>,
    <<"1", "2", "3", "4", "5", "6", "7">>,
    <<"+", "1", "-", "2", "3", "4", "-", "5", "6", "7", "8", " ", "x", " ",
      "1", "2", "3", "4", "5", "6", "7", "8", " ", "x",
      "+", "1", "-", "2", "3", "4", "-", "5", "6", "7", "8">>,
    <<"1", "2", "3", "4", "5", "6", "7", "8", "x", "8", "7", "6", "5", "4", "3", "2", "1", "x",
      "1", "1", "1", "1", "1", "1", "1", "1", "x", "2", "2", "2", "2", "2", "2", "2", "2", "x",
      "1", "2", "3", "4", "5", "6", "7", "8">> }

Texts == SeqsUpTo(TextChars, MaxTextLen) \cup LongTexts

PhoneArgs ==
  { [text |-> t, rules |-> PhoneRule(re, prefer, k)] :
      t \in Texts,
      re \in { Absent, Some(<<>>), Some(<< Pat({"1", "2", "3", "4", "5"}) >>),
               Some(<< Pat({"3"}), OptPat({"1", "2"}) >>) },
      prefer \in { <<>>, << Pat({"2"}) >>, << Pat({"x"}), Pat({"3", "5"}) >> },
      k \in {0, 1, 2, 4} }

InitPhones ==
  /\ BatchIdle
  /\ pc = "collect"
  /\ args \in PhoneArgs
  /\ plist = <<>>
  /\ idx = 0
  /\ tried = <<>>
  /\ ret = None

\* lines 49-54
PhonesCollect ==
  /\ pc = "collect"
  /\ plist' = CollectPhones(args.text, args.rules)
  /\ pc' = "dedup"
  /\ UNCHANGED <<pipeVars, args, idx, tried, ret>>

\* line 55
PhonesDedup ==
  /\ pc = "dedup"
  /\ plist' = Dedup(plist)
  /\ pc' = "prefer"
  /\ UNCHANGED <<pipeVars, args, idx, tried, ret>>

\* lines 56-59
PhonesPrefer ==
  /\ pc = "prefer"
  /\ plist' = PreferSort(plist, args.rules.prefer)
  /\ pc' = "result"
  /\ UNCHANGED <<pipeVars, args, idx, tried, ret>>

\* lines 60-61
PhonesReturn ==
  /\ pc = "result"
  /\ ret' = PhonesResult(plist, args.rules)
  /\ pc' = "returned"
  /\ UNCHANGED <<pipeVars, args, plist, idx, tried>>

NextPhones ==
  \/ PhonesCollect
  \/ PhonesDedup
  \/ PhonesPrefer
  \/ PhonesReturn

SpecPhones == InitPhones /\ [][NextPhones]_vars

RuleArgs ==
  { [text |-> t, rules |-> Rule(st, re)] :
      t \in SeqsUpTo(TextChars, MaxTextLen),
      st \in { NoStatic, StaticStr(<<>>), StaticList(<<>>), StaticStr(<<"S">>),
               StaticStr(<<" ", "S", " ">>), StaticList(<< <<"S">>, <<"T">> >>),
               StaticList(<< <<>> >>) },
      re \in { Absent, Some(<<>>), Some(<< Pat({"1"}), Pat({"2"}) >>),
               Some(<< Pat({"2", " "}), Pat({"1"}) >>), Some(<< Pat({"x"}), OptPat({"3"}) >>) } }

InitRules ==
  /\ BatchIdle
  /\ pc = "static_check"
  /\ args \in RuleArgs
  /\ plist = <<>>
  /\ idx = 1
  /\ tried = <<>>
  /\ ret = None

\* Mutant of ApplyStatic: the static value is taken only when there is no
\* pattern to try.
ApplyStaticAfterRegex ==
  /\ pc = "static_check"
  /\ IF StaticTruthy(args.rules.static) /\ args.rules.regex_any.v = <<>>
     THEN /\ ret' = StaticValue(args.rules.static)
          /\ pc' = "returned"
     ELSE /\ pc' = "loop"
          /\ UNCHANGED ret
  /\ UNCHANGED <<pipeVars, args, plist, idx, tried>>

\* lines 39-40
ApplyStatic ==
  /\ pc = "static_check"
  /\ IF StaticTruthy(args.rules.static)
     THEN /\ ret' = StaticValue(args.rules.static)
          /\ pc' = "returned"
     ELSE /\ pc' = "loop"
          /\ UNCHANGED ret
  /\ UNCHANGED <<pipeVars, args, plist, idx, tried>>

\* lines 41-44: one iteration of the loop over regex_any
ApplySearch ==
  /\ pc = "loop"
  /\ idx <= Len(args.rules.regex_any.v)
  /\ LET pat == args.rules.regex_any.v[idx]
         m   == Search(pat, args.text)
     IN /\ tried' = Append(tried, pat)
        /\ IF m # None
           THEN /\ ret' = Strip(m)
                /\ pc' = "returned"
                /\ UNCHANGED idx
           ELSE /\ idx' = idx + 1
                /\ UNCHANGED <<pc, ret>>
  /\ UNCHANGED <<pipeVars, args, plist>>

\* line 45
ApplyNoMatch ==
  /\ pc = "loop"
  /\ idx > Len(args.rules.regex_any.v)
  /\ ret' = None
  /\ pc' = "returned"
  /\ UNCHANGED <<pipeVars, args, plist, idx, tried>>

NextRules ==
  \/ ApplyStatic
  \/ ApplySearch
  \/ ApplyNoMatch

SpecRules == InitRules /\ [][NextRules]_vars

MetaTags == {NoTag, Meta(None), Meta(<<>>), Meta(<<" ">>), Meta(<<" ", "N">>)}

SoupArgs ==
  { [og_property |-> p, og_name |-> n, title |-> t, h1 |-> h, body |-> <<>>] :
      p \in MetaTags,
      n \in {NoTag, Meta(<<" ">>), Meta(<<"M">>)},
      t \in {None, <<" ">>, <<"A", "c", "m", "e", " ", "O", "r", "g">>},
      h \in {None, <<>>, <<" ">>, <<"H", " ">>} }

InitName ==
  /\ BatchIdle
  /\ pc = "get_og_name"
  /\ args \in SoupArgs
  /\ plist = <<>>
  /\ idx = 0
  /\ tried = <<>>
  /\ ret = None

\* lines 28-35
GetOgName ==
  /\ pc = "get_og_name"
  /\ ret' = get_og_name(args)
  /\ pc' = "returned"
  /\ UNCHANGED <<pipeVars, args, plist, idx, tried>>

NextName == GetOgName

SpecName == InitName /\ [][NextName]_vars

(***************************************************************************)
(* Properties.  What a run should do is computed here from the             *)
(* configuration and the world alone, and compared with what it did.       *)
(***************************************************************************)
Range(q) == {q[k] : k \in 1..Len(q)}

Count(q, x) == Cardinality({k \in 1..Len(q) : q[k] = x})

\* a string with a character that is not whitespace
NonEmptyString(v) == v # None /\ \E k \in 1..Len(v) : v[k] \notin Whitespace

\* the entries of a log <<domain index, x>> of domain k, in order
LogOf(log, k) ==
  LET Mine(e) == e[1] = k
      mine == SelectSeq(log, Mine)
  IN [m \in 1..Len(mine) |-> mine[m][2]]

Running == i >= 1 /\ pc \notin {"main", "done"}

LastStep == IF steps = <<>> THEN <<0, "">> ELSE steps[Len(steps)]

FieldOrder ==
  <<"NGO Name", "Address", "Contact Number", "Services Offered", "Contact Person">>

PagesOk(c) == c.contact_pages # <<>> /\ \A u \in Range(c.contact_pages) : FetchOk(u)

CombinedText(c) ==
  Join(<<" ">>, [k \in 1..Len(c.contact_pages) |-> get_text(web[c.contact_pages[k]].soup)])

NameUrl(c) == IF c.og_url.has /\ c.og_url.v # <<>> THEN c.og_url.v ELSE c.contact_pages[1]

PersonStatic(c) == c.contact_person.static.has /\ c.contact_person.static.v # <<>>

PersonOwnPage(c) ==
  /\ c.contact_person.page.has
  /\ c.contact_person.page.v \notin Range(c.contact_pages)

\* whether the k-th field's own fetch, if it has one, succeeds
Fetchable(c, k) ==
  CASE k = 1 -> NameUrl(c) = c.contact_pages[1] \/ FetchOk(NameUrl(c))
    [] k = 5 -> PersonStatic(c) \/ ~PersonOwnPage(c) \/ FetchOk(c.contact_person.page.v)
    [] OTHER -> TRUE

\* the value the k-th field resolves to
FieldValue(c, k) ==
  CASE k = 1 -> get_og_name(web[NameUrl(c)].soup)
    [] k = 2 -> apply_rules(CombinedText(c), c.address)
    [] k = 3 -> extract_phones(CombinedText(c), c.phones)
    [] k = 4 -> apply_rules(<<>>, c.services)
    [] k = 5 -> IF PersonStatic(c) THEN c.contact_person.static.v
                ELSE PersonFromText(c.contact_person,
                                    IF PersonOwnPage(c)
                                    THEN get_text(web[c.contact_person.page.v].soup)
                                    ELSE CombinedText(c))

Unresolved(c, k) == Fetchable(c, k) /\ ~NonEmptyString(FieldValue(c, k))

Resolved(c, k) == Fetchable(c, k) /\ NonEmptyString(FieldValue(c, k))

\* the first field in the order that does not resolve, 0 when all do
RECURSIVE FirstNotResolved(_, _)
FirstNotResolved(c, k) ==
  IF k > 5 THEN 0
  ELSE IF ~Resolved(c, k) THEN k
  ELSE FirstNotResolved(c, k + 1)

Stages == {"fetch_pages", "og_name", "address", "phones", "services", "contact_person"}

RecordFields(r) ==
  <<r.ngo_name, r.website, r.address, r.services, r.contact_person,
    r.contact_number, r.source_pages>>

\* C1: every field of every record scrape_domain has returned is a string
\* that is non-empty after trimming; a run that cannot produce such a
\* record ends in an error and appends nothing.
C1_RecordFieldsNonBlank ==
  /\ \A k \in 1..Len(rows) : \A f \in Range(RecordFields(rows[k])) : NonEmptyString(f)
  /\ pc = "return" => \A f \in Range(RecordFields(Record)) : NonEmptyString(f)
  /\ pc = "raised" => Len(rows) = i - 1

\* a record was returned whose address came from a regex match and whose
\* phones were ranked by preference
C1_Witness ==
  /\ Len(rows) = 1
  /\ ~StaticTruthy(cfg[1].c.address.static)
  /\ cfg[1].c.phones.prefer # <<>>
  /\ rows[1].contact_number = <<"2", ",", " ", "1">>

\* C2: when the contact pages were fetched and the first unresolved field in
\* the order NGO Name, Address, Contact Number, Services Offered, Contact
\* Person is the k-th, the run ends with the ValueError
\* "{domain}: missing required field -> {field k}", exactly the resolvers up
\* to the k-th have run, and no record is returned.
C2_FirstMissingFieldFails ==
  (Running /\ PagesOk(C)) =>
    LET k == FirstNotResolved(C, 1)
    IN (k # 0 /\ Unresolved(C, k)) =>
         /\ pc \in Stages \cup {"raised"}
         /\ Len(rows) = i - 1
         /\ \A m \in 1..Len(LogOf(steps, i)) :
              m <= k /\ LogOf(steps, i)[m] = FieldOrder[m]
         /\ pc = "raised" =>
              /\ err = [kind |-> "ValueError",
                        msg  |-> Domain \o <<": missing required field -> ", FieldOrder[k]>>]
              /\ Len(LogOf(steps, i)) = k

\* the address rule never matches while the services and the contact person
\* are unresolved too: the run failed naming "Address"
C2_Witness ==
  /\ pc = "raised"
  /\ Running
  /\ PagesOk(C)
  /\ FirstNotResolved(C, 1) = 2
  /\ Unresolved(C, 2)
  /\ Unresolved(C, 4)
  /\ Unresolved(C, 5)
  /\ err.msg = <<"d", "1", ": missing required field -> ", "Address">>

\* C3: when scrape_domain is about to return, every declared contact page
\* has been fetched exactly once (as often as it is declared), and the
\* combined text is the page texts joined with single spaces in declaration
\* order.
C3_DeclaredPagesFetchedOnce ==
  (Running /\ pc = "return") =>
    /\ \A u \in Range(C.contact_pages) :
         Count(LogOf(fetched, i), u) = Count(C.contact_pages, u)
    /\ text = CombinedText(C)

\* C8: the domains are scraped one at a time in configuration order, each
\* finished before the next begins; an exception ends the program with no
\* later domain touched and no report written; a report is written only
\* after every domain returned its record, one row per domain in
\* configuration order.
C8_BatchHaltsOnFirstFailure ==
  /\ \A m \in 1..Len(fetched) : fetched[m][1] <= i
  /\ \A m \in 1..Len(steps) : steps[m][1] <= i
  /\ \A m \in 1..(Len(fetched) - 1) : fetched[m][1] <= fetched[m + 1][1]
  /\ pc \in Stages \cup {"return", "raised"} => Len(rows) = i - 1
  /\ pc \in {"main", "done"} => Len(rows) = i
  /\ \A k \in 1..Len(rows) :
       /\ rows[k].website = <<"https://">> \o cfg[k].domain \o <<"/">>
       /\ rows[k].source_pages = Join(<<";", " ">>, cfg[k].c.contact_pages)
  /\ pc = "raised" =>
       /\ err # NoError
       /\ report = NoReport
       /\ ~(ENABLED MainLoop)
       /\ ~(ENABLED WriteReport)
  /\ report.written =>
       /\ pc = "done"
       /\ err = NoError
       /\ report.rows = rows
       /\ Len(report.rows) = Len(cfg)
  /\ pc = "done" => report.written

\* the first of two domains returned its record, the second failed: the
\* program stopped there without a report
C8_Witness ==
  /\ pc = "raised"
  /\ Len(cfg) = 2
  /\ i = 2
  /\ Len(rows) = 1
  /\ report = NoReport

\* the services rule has a non-empty static value
ServicesStatic(c) ==
  \/ c.services.static.kind = "str" /\ c.services.static.v[1] # <<>>
  \/ c.services.static.kind = "list" /\ c.services.static.v # <<>>

ServicesStaticValue(c) ==
  IF c.services.static.kind = "str" THEN c.services.static.v[1]
  ELSE Join(<<";", " ">>, c.services.static.v)

\* some regex_any pattern of the services rule matches the empty string
ServicesMatchEmpty(c) ==
  \E k \in 1..Len(c.services.regex_any.v) : c.services.regex_any.v[k].opt

\* C9: right after the services rule has run: without a non-empty static
\* value and without a pattern matching the empty string the run has failed
\* naming "Services Offered", whatever the page text; with a non-empty static
\* value the field is that value (and the run fails only if that value is
\* blank).
C9_ServicesAppliedToEmptyText ==
  (Running /\ LastStep = <<i, "Services Offered">> /\ err.kind # "FetchError") =>
    /\ (~ServicesStatic(C) /\ ~ServicesMatchEmpty(C)) =>
         /\ pc = "raised"
         /\ err = [kind |-> "ValueError",
                   msg  |-> Domain \o <<": missing required field -> ", "Services Offered">>]
    /\ (ServicesStatic(C) /\ NonEmptyString(ServicesStaticValue(C))) =>
         /\ pc = "contact_person"
         /\ services = ServicesStaticValue(C)
    /\ (ServicesStatic(C) /\ ~NonEmptyString(ServicesStaticValue(C))) => pc = "raised"

\* a services pattern that matches the page text (its "T") and not the empty
\* string: the run failed naming "Services Offered"
C9_Witness ==
  /\ pc = "raised"
  /\ LastStep = <<i, "Services Offered">>
  /\ ~ServicesStatic(C)
  /\ C.services.regex_any.v # <<>>
  /\ \A k \in 1..Len(C.services.regex_any.v) :
       /\ ~C.services.regex_any.v[k].opt
       /\ \E m \in 1..Len(text) : Lower(text[m]) \in C.services.regex_any.v[k].cls

\* the fetches of the running domain once the contact person is settled:
\* the declared pages, the name's page when it is not the first declared
\* one, and then `extra`
FetchesWith(c, extra) ==
  c.contact_pages
    \o (IF NameUrl(c) = c.contact_pages[1] THEN <<>> ELSE <<NameUrl(c)>>)
    \o extra

\* the contact-person step has run: it returned, failed the field, or its
\* fetch failed
PersonSettled ==
  /\ Running
  /\ \/ LastStep = <<i, "Contact Person">>
     \/ /\ pc = "raised"
        /\ err.kind = "FetchError"
        /\ LastStep = <<i, "Services Offered">>

\* what C10 says of a settled contact person when `static` decides whether
\* the static value is taken
PersonSourceRule(static) ==
  PersonSettled =>
    LET cpsel == C.contact_person
        own   == cpsel.page.has /\ cpsel.page.v \notin Range(C.contact_pages)
    IN IF static
       THEN /\ ctext = None
            /\ LogOf(fetched, i) = FetchesWith(C, <<>>)
            /\ pc = "return" => cp = cpsel.static.v
       ELSE IF own
       THEN /\ LogOf(fetched, i) = FetchesWith(C, <<cpsel.page.v>>)
            /\ pc = "raised" /\ err.kind = "FetchError" => ctext = text
            /\ LastStep = <<i, "Contact Person">> => ctext = get_text(web[cpsel.page.v].soup)
       ELSE /\ LogOf(fetched, i) = FetchesWith(C, <<>>)
            /\ ctext = text

\* C10 as stated: a static that is set, empty or not, is returned verbatim
\* with no pattern evaluation and no fetch.
C10_StaticSetReturnedVerbatim == PersonSourceRule(C.contact_person.static.has)

\* C10 amended: a static set to a non-empty value is returned verbatim with
\* no pattern evaluation and no fetch; otherwise (static missing or empty)
\* one extra fetch is made exactly when page is set and is not a declared
\* contact page, the pattern then runs on that page's text alone, and in
\* every other case it runs on the combined text with no extra fetch.
C10_PersonSource ==
  PersonSourceRule(C.contact_person.static.has /\ C.contact_person.static.v # <<>>)

\* no static, page u3 outside the declared pages: one extra fetch of u3 and
\* the pattern run on its text, which is not the combined text
C10_Witness ==
  /\ Running
  /\ LastStep = <<i, "Contact Person">>
  /\ ~C.contact_person.static.has
  /\ C.contact_person.page = Some(U3)
  /\ U3 \notin Range(C.contact_pages)
  /\ LogOf(fetched, i) = C.contact_pages \o <<U3>>
  /\ ctext = get_text(web[U3].soup)
  /\ ctext # text

(***************************************************************************)
(* Properties of one call of extract_phones, apply_rules, get_og_name.     *)
(***************************************************************************)
\* the candidates found, before deduplication
Found == CollectPhones(args.text, args.rules)

DistinctFound == Cardinality(Range(Found))

\* the position at which a candidate was first found
FirstSeen(p) == CHOOSE k \in 1..Len(Found) : Found[k] = p /\ \A m \in 1..(k - 1) : Found[m] # p

\* a candidate matches at least one prefer pattern
Preferred(p) ==
  \E k \in 1..Len(args.rules.prefer) :
    \/ args.rules.prefer[k].opt
    \/ \E m \in 1..Len(p) : Lower(p[m]) \in {Lower(x) : x \in args.rules.prefer[k].cls}

\* how many candidates the call returns
ReturnedCount ==
  LET k == IF args.rules.required_min > 1 THEN args.rules.required_min ELSE 1
      cap == IF k > 3 THEN k ELSE 3
  IN IF DistinctFound < cap THEN DistinctFound ELSE cap

\* C4: with n distinct candidates and k = max(1, required_min), the call
\* returns None when n < k, and otherwise min(n, max(k, 3)) distinct
\* candidates, each of them found in the text, joined with ", ".
C4_PhoneCount ==
  pc = "returned" =>
    LET k == IF args.rules.required_min > 1 THEN args.rules.required_min ELSE 1
    IN IF DistinctFound < k THEN ret = None
       ELSE /\ Len(plist) >= ReturnedCount
            /\ ret = Join(<<",", " ">>, SubSeq(plist, 1, ReturnedCount))
            /\ \A a \in 1..ReturnedCount : plist[a] \in Range(Found)
            /\ \A a, b \in 1..ReturnedCount : a # b => plist[a] # plist[b]

\* required_min = 1, five distinct candidates, no preference: exactly the
\* first three are returned
C4_Witness ==
  /\ pc = "returned"
  /\ args.rules.required_min = 1
  /\ args.rules.prefer = <<>>
  /\ DistinctFound = 5
  /\ ret = <<"1", ",", " ", "2", ",", " ", "3">>

\* C5: the returned candidates hold no duplicates; every one that matches a
\* prefer pattern precedes every one that matches none; inside each of the
\* two groups, and everywhere when there are no prefer patterns, they are in
\* first-seen order.
C5_PhoneOrder ==
  (pc = "returned" /\ ret # None) =>
    /\ Len(plist) >= ReturnedCount
    /\ ret = Join(<<",", " ">>, SubSeq(plist, 1, ReturnedCount))
    /\ \A a, b \in 1..ReturnedCount :
         a < b =>
           /\ plist[a] # plist[b]
           /\ ~(Preferred(plist[b]) /\ ~Preferred(plist[a]))
           /\ (Preferred(plist[a]) = Preferred(plist[b])) =>
                FirstSeen(plist[a]) < FirstSeen(plist[b])

\* found 1, 2, 3 in that order, only 2 preferred: 2, 1, 3 is returned
C5_Witness ==
  /\ pc = "returned"
  /\ Found = << <<"1">>, <<"2">>, <<"3">> >>
  /\ Preferred(<<"2">>) /\ ~Preferred(<<"1">>) /\ ~Preferred(<<"3">>)
  /\ ret = <<"2", ",", " ", "1", ",", " ", "3">>

\* the value a static is turned into: a list joined with "; ", a string as is
StaticDerived(st) ==
  IF st.kind = "list" THEN Join(<<";", " ">>, st.v) ELSE st.v[1]

StaticSet(st) == st.kind # "absent"

StaticNonEmpty(st) ==
  \/ st.kind = "str" /\ st.v[1] # <<>>
  \/ st.kind = "list" /\ st.v # <<>>

\* C6 as stated: with static and regex_any both set, the static-derived
\* value is returned (None counted as the empty value) and no pattern is
\* evaluated.
C6_StaticSetWins ==
  (pc = "returned" /\ StaticSet(args.rules.static) /\ args.rules.regex_any.has) =>
    /\ \/ ret = StaticDerived(args.rules.static)
       \/ ret = None /\ StaticDerived(args.rules.static) = <<>>
    /\ tried = <<>>

\* C6 amended: with regex_any set and static set to a non-empty value (a
\* non-empty string or a non-empty list), the static-derived value is
\* returned whatever the text, and no pattern is evaluated.
C6_NonEmptyStaticWins ==
  (pc = "returned" /\ StaticNonEmpty(args.rules.static) /\ args.rules.regex_any.has) =>
    /\ ret = StaticDerived(args.rules.static)
    /\ tried = <<>>

\* a list static and a pattern that matches the text: "S; T" is returned
C6_Witness ==
  /\ pc = "returned"
  /\ args.rules.static.kind = "list"
  /\ args.rules.regex_any.has
  /\ args.rules.regex_any.v # <<>>
  /\ Search(args.rules.regex_any.v[1], args.text) \notin {None, <<>>}
  /\ tried = <<>>
  /\ ret = <<"S", ";", " ", "T">>

\* the candidates of get_og_name in the order of the chain; None is an
\* absent one
NameCandidates(soup) ==
  << IF soup.og_property.found THEN soup.og_property.content ELSE None,
     IF soup.og_name.found THEN soup.og_name.content ELSE None,
     soup.title,
     soup.h1 >>

\* C7: get_og_name returns, trimmed, the first candidate of the chain that
\* is non-empty after trimming (a blank one is passed over), and no name
\* when there is none.
C7_FirstNonBlankCandidate ==
  pc = "returned" =>
    LET cands == NameCandidates(args)
        good  == {k \in 1..Len(cands) : NonEmptyString(cands[k])}
    IN IF good = {} THEN ~NonEmptyString(ret)
       ELSE ret = Strip(cands[CHOOSE k \in good : \A m \in good : k <= m])

====
